---------------------------- MODULE Spec2Model ----------------------------
(***************************************************************************)
(* Model of src/Dashboard/token_highlighter.py: class TokenHighlighter.    *)
(*                                                                         *)
(* A Python str is a sequence of one-character strings, a dict is the      *)
(* sequence of its <<key, value>> items in insertion order, a float is an  *)
(* exact fraction [n, d] in lowest terms with d > 0.  Offsets into strings *)
(* are 0-based as in the source.                                           *)
(***************************************************************************)
EXTENDS Integers, Sequences, FiniteSets, TLC

(***************************************************************************)
(* Bounds of the checked input space.                                      *)
(***************************************************************************)
MaxTextLen == 3
MaxExplLen == 2
MaxCalls == 3
MaxDen == 8

(***************************************************************************)
(* Characters.                                                            *)
(***************************************************************************)
UpperLetters == {"A", "C", "D", "E", "L", "N", "P", "S", "U", "K"}
LowerLetters == {"a", "c", "d", "e", "f", "h", "i", "k", "l", "n", "o",
                 "p", "r", "s", "t", "u", "w", "y"}
\* "I." stands for U+0130 (capital I with dot above): alphanumeric, and the
\* one character here whose str.lower() is two characters, "i" followed by
\* U+0307 (combining dot above, written "."), which is not alphanumeric.
DottedI == "I."
CombiningDot == "."

\* str.isalnum() of one character
IsAlnum(c) == c \in UpperLetters \cup LowerLetters \cup {DottedI}

\* str.isspace() of one character (what str.strip() removes)
IsSpace(c) == c = " "

\* str.lower() of one character
LowerChar(c) ==
    CASE c = "A" -> <<"a">> [] c = "C" -> <<"c">> [] c = "D" -> <<"d">>
      [] c = "E" -> <<"e">> [] c = "L" -> <<"l">> [] c = "N" -> <<"n">>
      [] c = "P" -> <<"p">> [] c = "S" -> <<"s">> [] c = "U" -> <<"u">>
      [] c = "K" -> <<"k">>
      [] c = DottedI -> <<"i", CombiningDot>>
      [] OTHER -> <<c>>

\* str.lower()
RECURSIVE Lower(_)
Lower(s) == IF s = <<>> THEN <<>> ELSE LowerChar(Head(s)) \o Lower(Tail(s))

\* str.strip()
RECURSIVE LStrip(_)
LStrip(s) == IF s # <<>> /\ IsSpace(Head(s)) THEN LStrip(Tail(s)) ELSE s
RECURSIVE RStrip(_)
RStrip(s) ==
    IF s # <<>> /\ IsSpace(s[Len(s)]) THEN RStrip(SubSeq(s, 1, Len(s) - 1))
    ELSE s
Strip(s) == RStrip(LStrip(s))

\* s[a:b] for 0 <= a, 0 <= b (Python clamps both to len(s))
Slice(s, a, b) ==
    LET hi == IF b > Len(s) THEN Len(s) ELSE b
    IN  IF a >= hi THEN <<>> ELSE SubSeq(s, a + 1, hi)

\* token.startswith('##')
StartsWithMarker(tok) == Len(tok) >= 2 /\ tok[1] = "#" /\ tok[2] = "#"

\* hay occurs at 0-based offset p of s
OccursAt(s, hay, p) ==
    /\ p + Len(hay) <= Len(s)
    /\ \A j \in 1..Len(hay) : s[p + j] = hay[j]

\* s.find(hay, start) for a non-empty hay: lowest offset >= start, or -1
Find(s, hay, start) ==
    LET hits == {p \in start..(Len(s) - Len(hay)) : OccursAt(s, hay, p)}
    IN  IF hits = {} THEN -1
        ELSE CHOOSE p \in hits : \A q \in hits : p <= q

(***************************************************************************)
(* Floats as exact fractions.                                             *)
(***************************************************************************)
RECURSIVE GCD(_, _)
GCD(a, b) == IF b = 0 THEN a ELSE GCD(b, a % b)
Abs(x) == IF x < 0 THEN -x ELSE x

\* the value n / d, d > 0, in lowest terms
Frac(n, d) ==
    LET g == GCD(Abs(n), d) IN [n |-> n \div g, d |-> d \div g]
Num(x) == Frac(x, 1)
FLess(x, y) == x.n * y.d < y.n * x.d
FLeq(x, y) == x.n * y.d <= y.n * x.d
FSub(x, y) == Frac(x.n * y.d - y.n * x.d, x.d * y.d)
\* x / y for y > 0
FDiv(x, y) == Frac(x.n * y.d, x.d * y.n)

Zero == Num(0)
One == Num(1)
Half == Frac(1, 2)

\* a score that is no number but a str
Str(s) == [str |-> s]
IsNumber(v) == DOMAIN v = {"n", "d"}

\* the first score is taken for the least
MinOfFirst(scores) == scores[1]
\* min(scores), max(scores) of a non-empty list of numbers
MinOf(scores) ==
    LET S == {scores[j] : j \in 1..Len(scores)}
    IN  CHOOSE x \in S : \A y \in S : FLeq(x, y)
MaxOf(scores) ==
    LET S == {scores[j] : j \in 1..Len(scores)}
    IN  CHOOSE x \in S : \A y \in S : FLeq(y, x)

(***************************************************************************)
(* dict, as the sequence of its items in insertion order.                 *)
(***************************************************************************)
Keys(m) == {m[j][1] : j \in 1..Len(m)}
KeyList(m) == [j \in 1..Len(m) |-> m[j][1]]
Lookup(m, key) == m[CHOOSE j \in 1..Len(m) : m[j][1] = key][2]
\* m[key] = v for a key not in m
Insert(m, key, v) == Append(m, <<key, v>>)

(***************************************************************************)
(* Colours: '#rrggbb' strings.                                            *)
(***************************************************************************)
HexDigits == <<"0", "1", "2", "3", "4", "5", "6", "7", "8", "9",
               "a", "b", "c", "d", "e", "f">>
\* int(c, 16) of one hexadecimal digit
HexVal(c) ==
    CASE c = "A" -> 10 [] c = "B" -> 11 [] c = "C" -> 12
      [] c = "D" -> 13 [] c = "E" -> 14 [] c = "F" -> 15
      [] OTHER -> (CHOOSE j \in 1..16 : HexDigits[j] = c) - 1

RECURSIVE LStripHash(_)
LStripHash(s) == IF s # <<>> /\ Head(s) = "#" THEN LStripHash(Tail(s)) ELSE s

hex_to_rgb(hex_color) ==
    LET h == LStripHash(hex_color)
    IN  [c \in 1..3 |-> 16 * HexVal(h[2 * c - 1]) + HexVal(h[2 * c])]

\* '#%02x%02x%02x' for channels in 0..255
\* %02x
HexTwo(v) == <<HexDigits[(v \div 16) + 1], HexDigits[(v % 16) + 1]>>

rgb_to_hex(rgb) ==
    <<"#">> \o HexTwo(rgb[1]) \o HexTwo(rgb[2]) \o HexTwo(rgb[3])

\* int(p / q) for q > 0: truncation towards zero
Trunc(p, q) == IF p >= 0 THEN p \div q ELSE -((-p) \div q)

\* max(0, min(1, ratio))
Clamp(ratio) ==
    LET m == IF FLess(ratio, One) THEN ratio ELSE One
    IN  IF FLess(Zero, m) THEN m ELSE Zero

\* the two colours change places
ChannelSwapped(lo, hi, ratio) ==
    Trunc(hi * ratio.d + (lo - hi) * ratio.n, ratio.d)
\* int(lo + (hi - lo) * ratio)
Channel(lo, hi, ratio) == Trunc(lo * ratio.d + (hi - lo) * ratio.n, ratio.d)

interpolate_color(ratio, mincol, maxcol) ==
    LET r == Clamp(ratio)
        min_rgb == hex_to_rgb(mincol)
        max_rgb == hex_to_rgb(maxcol)
    IN  rgb_to_hex([c \in 1..3 |-> Channel(min_rgb[c], max_rgb[c], r)])

Black == <<"#", "0", "0", "0", "0", "0", "0">>
\* plain segments carry the neutral score 0.5
PlainSegmentHalf(txt) == <<txt, Black, Half>>
\* (text, "#000000", 0.0)
PlainSegment(txt) == <<txt, Black, Zero>>

(***************************************************************************)
(* Score aggregation, lines 87-118.                                       *)
(***************************************************************************)
CLS == <<"[", "C", "L", "S", "]">>
SEP == <<"[", "S", "E", "P", "]">>
PAD == <<"[", "P", "A", "D", "]">>
UNK == <<"[", "U", "N", "K", "]">>
\* the argument special_tokens: None, or a set of tokens
None == [none |-> TRUE, set |-> {}]
Given(S) == [none |-> FALSE, set |-> S]

\* lines 87-88
EffectiveSpecial(arg) == IF arg.none THEN {CLS, SEP, PAD, UNK} ELSE arg.set

\* a key that is present gets the new score, and the list one more entry
RecordOverwrite(acc, key, score) ==
    IF key = <<>> THEN acc
    ELSE IF key \in Keys(acc.map)
    THEN [acc EXCEPT !.map = [j \in 1..Len(@) |->
                                 IF @[j][1] = key THEN <<key, score>> ELSE @[j]],
                     !.scores_list = Append(@, score)]
    ELSE [acc EXCEPT !.map = Insert(@, key, score),
                     !.scores_list = Append(@, score)]
\* lines 107-109 and 111-113: record key with score unless empty or present
Record(acc, key, score) ==
    IF key # <<>> /\ key \notin Keys(acc.map)
    THEN [acc EXCEPT !.map = Insert(@, key, score),
                     !.scores_list = Append(@, score)]
    ELSE acc

\* lines 100-113 on the pair (token, score);
\* acc = [map, scores_list, current_token]; map is token_score_map before
\* line 127 rebinds the name to the normalized map
AggregateToken(acc, token, score) ==
    IF StartsWithMarker(token)
    THEN [acc EXCEPT !.current_token = @ \o Slice(token, 2, Len(token))]
    ELSE LET a1 == IF acc.current_token # <<>>
                   THEN Record(acc, Strip(Lower(acc.current_token)), score)
                   ELSE acc
             new == Strip(Lower(token))
         IN  [Record(a1, new, score) EXCEPT !.current_token = new]

\* special tokens are aggregated like any other
AggregateStepNoSkip(acc, token, score, special) ==
    AggregateToken(acc, token, score)
\* one iteration of the loop of lines 96-113
AggregateStep(acc, token, score, special) ==
    IF token \in special THEN acc ELSE AggregateToken(acc, token, score)

\* lines 116-118
HandleLast(acc, expl) ==
    IF acc.current_token # <<>> /\ acc.current_token \notin Keys(acc.map)
    THEN LET v == IF expl # <<>> THEN expl[Len(expl)][2] ELSE Zero
         IN  [acc EXCEPT !.map = Insert(@, acc.current_token, v),
                         !.scores_list = Append(@, v)]
    ELSE acc

(***************************************************************************)
(* Normalization, lines 124-132.                                          *)
(***************************************************************************)
\* max_score is the divisor, not the range: (v - min) / max
NormValueOverMax(v, min_score, max_score) ==
    IF max_score # min_score
    THEN FDiv(FSub(v, min_score), IF FLess(Zero, max_score) THEN max_score ELSE One)
    ELSE Half
\* min_score is not subtracted: v / (max - min)
NormValueNoShift(v, min_score, max_score) ==
    IF max_score # min_score
    THEN FDiv(v, FSub(max_score, min_score))
    ELSE Half
\* a flat list maps to 1.0
NormValueFlatOne(v, min_score, max_score) ==
    IF max_score # min_score
    THEN FDiv(FSub(v, min_score), FSub(max_score, min_score))
    ELSE One
\* lines 126-132, one value
NormValue(v, min_score, max_score) ==
    IF max_score # min_score
    THEN FDiv(FSub(v, min_score), FSub(max_score, min_score))
    ELSE Half

\* TypeError: min() at line 124 compares a str with a float, or line 129
\* subtracts a str from a str
NormalizeRaises(scores) ==
    \/ \E a, b \in 1..Len(scores) : IsNumber(scores[a]) /\ ~IsNumber(scores[b])
    \/ /\ \A a \in 1..Len(scores) : ~IsNumber(scores[a])
       /\ \E a, b \in 1..Len(scores) : scores[a] # scores[b]

\* lines 124-132 when nothing raises; strs that get here are all equal, and
\* min() and max() of equal items are the first
Normalize(map, scores) ==
    LET numeric == \A j \in 1..Len(scores) : IsNumber(scores[j])
        min_score == IF numeric THEN MinOf(scores) ELSE scores[1]
        max_score == IF numeric THEN MaxOf(scores) ELSE scores[1]
    IN  [j \in 1..Len(map) |->
            <<map[j][1], NormValue(map[j][2], min_score, max_score)>>]

(***************************************************************************)
(* Locating, lines 139-157.                                               *)
(***************************************************************************)
RECURSIVE ByLenDesc(_, _)
\* the keys of length n, n-1, ..., 1, each group in its original order
ByLenDesc(keys, n) ==
    IF n = 0 THEN <<>>
    ELSE SelectSeq(keys, LAMBDA key : Len(key) = n) \o ByLenDesc(keys, n - 1)

MaxLen(keys) ==
    LET L == {Len(keys[j]) : j \in 1..Len(keys)}
    IN  IF L = {} THEN 0 ELSE CHOOSE x \in L : \A y \in L : y <= x

\* sorted(keys, key=len, reverse=True): stable, longest first
SortedTokens(map) == ByLenDesc(KeyList(map), MaxLen(KeyList(map)))

\* text[pos-1] of lines 152 is evaluated (pos # 0) with pos-1 past the end
BoundaryRaises(txt, pos) == pos # 0 /\ pos - 1 >= Len(txt)

\* lines 152-153
BoundaryOk(txt, pos, n) ==
    /\ pos = 0 \/ ~IsAlnum(txt[pos])
    /\ pos + n >= Len(txt) \/ ~IsAlnum(txt[pos + n + 1])

(***************************************************************************)
(* Segment building, lines 160-200.                                       *)
(***************************************************************************)
\* token_positions.items() flattened in iteration order: <<token, start, end>>
RECURSIVE Spans(_)
Spans(tp) ==
    IF tp = <<>> THEN <<>>
    ELSE [j \in 1..Len(Head(tp)[2]) |->
            <<Head(tp)[1], Head(tp)[2][j][1], Head(tp)[2][j][2]>>]
         \o Spans(Tail(tp))

MinusOne == Num(-1)

\* an equal score replaces the best so far
BetterOrEqual(score, best_score) == FLeq(best_score, score)
\* line 171
Better(score, best_score) == FLess(best_score, score)

\* lines 163-174 over the spans sp: best = [token, score, end]
RECURSIVE BestAt(_, _, _, _)
BestAt(sp, map, at, best) ==
    IF sp = <<>> THEN best
    ELSE LET s == Head(sp)
             score == Lookup(map, s[1])
         IN  IF s[2] = at /\ Better(score, best.score)
             THEN BestAt(Tail(sp), map, at,
                         [found |-> TRUE, token |-> s[1], score |-> score,
                          end |-> s[3]])
             ELSE BestAt(Tail(sp), map, at, best)

\* best_score starts at 0
NoBestZero(at) ==
    [found |-> FALSE, token |-> <<>>, score |-> Zero, end |-> at + 1]
\* lines 163-165: best_token = None is found = FALSE
NoBest(at) ==
    [found |-> FALSE, token |-> <<>>, score |-> MinusOne, end |-> at + 1]

\* the plain text is cut after one character
NextTokenStartOneChar(sp, txt, at) == at + 1
\* lines 184-188
NextTokenStart(sp, txt, at) ==
    LET S == {sp[j][2] : j \in 1..Len(sp)}
        later == {x \in S : x > at /\ x < Len(txt)}
    IN  IF later = {} THEN Len(txt)
        ELSE CHOOSE x \in later : \A y \in later : x <= y

\* the key is emitted in place of the text it matched
TokenTextKey(txt, at, best) == best.token
\* line 178
TokenText(txt, at, best) == Slice(txt, at, best.end)

\* no fallback
ReturnedAsIs(segs, txt) == segs
\* the segment of the fallback has score 0.5
ReturnedHalf(segs, txt) ==
    IF segs = <<>> THEN <<PlainSegmentHalf(txt)>> ELSE segs
\* lines 197-200
Returned(segs, txt) == IF segs = <<>> THEN <<PlainSegment(txt)>> ELSE segs

(***************************************************************************)
(* Inputs.                                                                *)
(***************************************************************************)
SeqsUpTo(S, n) == UNION {[1..m -> S] : m \in 0..n}

TextChars == {"a", "A", " "}
\* tokens: a word, a continuation piece, a word to lower-case and trim, a
\* continuation piece with a blank inside, a special token
Vocab == {<<"a">>, <<"#", "#", "a">>, <<" ", "A">>, <<"#", "#", " ", "a">>, SEP}
Scores == {Num(-1), Num(2)}

WhiteHex == <<"#", "F", "F", "F", "F", "F", "F">>
RedHex == <<"#", "F", "F", "0", "0", "0", "0">>
CoralHex == <<"#", "F", "F", "6", "B", "6", "B">>
\* __init__'s defaults (line 12) and the colours dashboard.py:663 passes
ColorConfigs == {<<WhiteHex, RedHex>>, <<WhiteHex, CoralHex>>}

GenericInputs ==
    [text : SeqsUpTo(TextChars, MaxTextLen),
     explanation : SeqsUpTo(Vocab \X Scores, MaxExplLen),
     special : {None}]

\* "Need water now" with tokens need, water, now (spec.md, scenario A)
NeedWaterNow == <<"N", "e", "e", "d", " ", "w", "a", "t", "e", "r", " ",
                  "n", "o", "w">>
Tenths == {Frac(1, 10), Frac(2, 10), Frac(9, 10)}
ScenarioA ==
    {[text |-> NeedWaterNow,
      explanation |-> << <<(<<"n", "e", "e", "d">>), s1>>,
                         <<(<<"w", "a", "t", "e", "r">>), s2>>,
                         <<(<<"n", "o", "w">>), s3>> >>,
      special |-> None] : s1 \in Tenths, s2 \in Tenths, s3 \in Tenths}

\* "flood hits city" with tokens flo, ##od and then nothing, a special
\* token or the next word (spec.md, scenario C)
FloodHitsCity == <<"f", "l", "o", "o", "d", " ", "h", "i", "t", "s", " ",
                   "c", "i", "t", "y">>
FloOd == << <<(<<"f", "l", "o">>), Frac(3, 10)>>,
            <<(<<"#", "#", "o", "d">>), Frac(7, 10)>> >>
ScenarioC ==
    {[text |-> FloodHitsCity, explanation |-> FloOd \o tail, special |-> None] :
        tail \in {<<>>}
           \cup {<< <<tok, s>> >> :
                   tok \in {SEP, <<"h", "i", "t", "s">>},
                   s \in {Frac(3, 10), Frac(5, 10), Frac(9, 10)}}}

\* texts in which a special-token literal occurs, or a character whose
\* lower-case form is longer than itself
OddTexts ==
    [text : {SEP, <<"a", " ">> \o SEP,
             <<DottedI>>, <<DottedI, " ", "a">>, <<DottedI, DottedI, " ", "a">>,
             <<DottedI, DottedI, " ", "a", "a", " ", " ">>},
     explanation : {<< <<SEP, Num(2)>> >>,
                    << <<SEP, Num(2)>>, <<(<<"a">>), Num(-1)>> >>,
                    << <<Lower(SEP), Num(2)>>, <<(<<"i">>), Num(-1)>> >>},
     special : {None}]

\* a caller-supplied special-token set
CustomSpecial ==
    [text : {<<"a">>, <<"A", " ", "a">>, <<"a", "a", " ">>},
     explanation : SeqsUpTo(Vocab \X Scores, 2),
     special : {Given({<<"a">>}), Given({<<"#", "#", "a">>, SEP})}]

\* texts with room for two different words
TwoWordTexts ==
    [text : {<<"a", " ", "a", "a">>, <<"A", "a", " ", "a", " ", "a">>},
     explanation : SeqsUpTo(Vocab \X Scores, 2),
     special : {None}]

\* continuation pieces with an upper-case letter, or spelling a special token
CasedPieces ==
    [text : {<<"a", "A">>, <<"a", "A", " ", "a">>},
     explanation : SeqsUpTo({<<"a">>, <<"#", "#", "A">>, <<"#", "#">> \o SEP}
                               \X Scores, 2),
     special : {None}]

\* explanations with scores that are strs
MalformedScores ==
    [text : {<<"a">>, <<"a", " ", "a", "a">>},
     explanation : SeqsUpTo({<<"a">>, <<"a", "a">>, SEP}
                               \X {Num(2), Str("high"), Str("low")}, 2),
     special : {None}]

Inputs == GenericInputs \cup ScenarioA \cup ScenarioC \cup OddTexts
             \cup CustomSpecial \cup TwoWordTexts \cup CasedPieces
             \cup MalformedScores

\* the inputs of the specification with several calls
CallInputs ==
    {in \in ScenarioC :
        \/ Len(in.explanation) = 2
        \/ in.explanation[3][1] = SEP /\ in.explanation[3][2] # Frac(9, 10)
        \/ in.explanation[3][1] # SEP /\ in.explanation[3][2] = Frac(5, 10)}
    \cup {in \in OddTexts : Len(in.text) = 4 /\ in.explanation[1][1] = SEP
                            /\ Len(in.explanation) = 2}
    \cup {[text |-> <<"A", " ", "a">>, explanation |-> <<>>, special |-> None],
          [text |-> <<"A", " ", "a">>,
           explanation |-> << <<(<<" ", "A">>), Num(-1)>>,
                              <<(<<"#", "#", "a">>), Num(2)>> >>,
           special |-> None],
          [text |-> <<"A", " ", "a">>,
           explanation |-> << <<(<<"a">>), Num(2)>> >>,
           special |-> Given({<<"a">>})],
          [text |-> <<"a", " ", "a", "a">>,
           explanation |-> << <<(<<"a">>), Str("high")>>,
                              <<(<<"a", "a">>), Num(2)>> >>,
           special |-> None]}

(***************************************************************************)
(* State.                                                                 *)
(***************************************************************************)
VARIABLES
    min_color, max_color,       \* self.min_color, self.max_color
    text, explanation, special_arg,   \* the arguments of the running call
    pc,                         \* where the call is
    special_tokens,             \* the locals of create_highlighted_text
    k,                          \* 1-based index of the pair the loop is at
    acc,                        \* the raw map, scores_list, current_token
    token_score_map,            \* the normalized map (lines 127-132)
    sorted_tokens, t, start, positions, token_positions,
    i, segments,
    result,                     \* what the call returned
    calls,                      \* calls returned so far
    history,                    \* <<arguments, result>> of the returned calls
    pending,                    \* history of the word in current_token
    words,                      \* log of the pending words put into the map
    emitted_by,                 \* the branch that made each segment
    other,                      \* the frame of a second, suspended invocation
    interleaved,                \* two invocations ran in turns
    ratio, color                \* interpolate_color(ratio) called on its own,
                                \* and what it returned

args == <<text, explanation, special_arg>>
locals == <<special_tokens, k, acc, token_score_map, sorted_tokens, t, start,
            positions, token_positions, i, segments>>
log == <<pending, words, emitted_by>>
par == <<other, interleaved>>
shade == <<ratio, color>>
vars == <<min_color, max_color, args, pc, locals, result, calls, history, log,
          par, shade>>

\* how a call ended: the list it returned, or the exception it raised
Returns(value) == [raised |-> FALSE, error |-> "", segments |-> value]
Raises(error) == [raised |-> TRUE, error |-> error, segments |-> <<>>]
IndexError == Raises("IndexError")
TypeError == Raises("TypeError")
NoResult == Returns(<<>>)

EmptyAcc == [map |-> <<>>, scores_list |-> <<>>, current_token |-> <<>>]
\* current_token outlives the call (as an attribute would)
FreshAccKeepsCur(stale) ==
    [EmptyAcc EXCEPT !.current_token = stale.current_token]
\* lines 91-95 assign the three afresh, whatever the frame held
FreshAcc(stale) == EmptyAcc

\* History of the word being accumulated: whether a non-continuation token
\* started it, that token's score, and how many continuation pieces followed
NoPending == [started |-> FALSE, score |-> Zero, pieces |-> 0]
PendingAfter(p, token, score, special) ==
    IF token \in special THEN p
    ELSE IF StartsWithMarker(token) THEN [p EXCEPT !.pieces = @ + 1]
    ELSE [started |-> TRUE, score |-> score, pieces |-> 0]
\* the entry logged when the pending word goes into the map as key
Logged(p, before, after, key) ==
    IF key # <<>> /\ key \notin Keys(before.map)
    THEN {[key |-> key, recorded |-> Lookup(after.map, key),
           started |-> p.started, start_score |-> p.score,
           pieces |-> p.pieces, surface |-> before.current_token]}
    ELSE {}

\* the frame of the invocation that runs: its arguments, its position, its
\* locals and what it returned
Frame ==
    [text |-> text, explanation |-> explanation, special_arg |-> special_arg,
     pc |-> pc, special_tokens |-> special_tokens, k |-> k, acc |-> acc,
     token_score_map |-> token_score_map, sorted_tokens |-> sorted_tokens,
     t |-> t, start |-> start, positions |-> positions,
     token_positions |-> token_positions, i |-> i, segments |-> segments,
     result |-> result, pending |-> pending, words |-> words,
     emitted_by |-> emitted_by]
\* no second invocation
NoFrame ==
    [text |-> <<>>, explanation |-> <<>>, special_arg |-> None,
     pc |-> "done", special_tokens |-> {}, k |-> 1, acc |-> EmptyAcc,
     token_score_map |-> <<>>, sorted_tokens |-> <<>>,
     t |-> 1, start |-> 0, positions |-> <<>>,
     token_positions |-> <<>>, i |-> 0, segments |-> <<>>,
     result |-> NoResult, pending |-> NoPending, words |-> {},
     emitted_by |-> <<>>]
\* the frame of an invocation about to run
Called(in) ==
    [NoFrame EXCEPT !.text = in.text, !.explanation = in.explanation,
                    !.special_arg = in.special, !.pc = "call"]
Ended(p) == p \in {"done", "raised"}
MidRun(p) == p \notin {"call", "done", "raised"}

\* TokenHighlighter(min_color, max_color) and the first call's arguments
InitOf(colors, inputs) ==
    /\ \E c \in colors : min_color = c[1] /\ max_color = c[2]
    /\ ratio = Zero
    /\ color = <<>>
    /\ \E in \in inputs :
          /\ text = in.text
          /\ explanation = in.explanation
          /\ special_arg = in.special
    /\ pc = "call"
    /\ special_tokens = {}
    /\ k = 1
    /\ acc = EmptyAcc
    /\ token_score_map = <<>>
    /\ sorted_tokens = <<>>
    /\ t = 1
    /\ start = 0
    /\ positions = <<>>
    /\ token_positions = <<>>
    /\ i = 0
    /\ segments = <<>>
    /\ result = NoResult
    /\ calls = 0
    /\ history = {}
    /\ pending = NoPending
    /\ words = {}
    /\ emitted_by = <<>>

InitWith(inputs) == InitOf(ColorConfigs, inputs)

\* one invocation at a time
Alone == other = NoFrame /\ interleaved = FALSE

Init == InitWith(Inputs) /\ Alone

\* what a return leaves behind
Return(value) ==
    /\ result' = Returns(value)
    /\ pc' = "done"
    /\ calls' = calls + 1
    /\ history' = history \cup {<<args, Returns(value)>>}
    /\ UNCHANGED <<par, shade>>

Running ==
    UNCHANGED <<min_color, max_color, args, result, calls, history, par, shade>>

\* lines 87-95
Enter ==
    /\ pc = "call"
    /\ special_tokens' = EffectiveSpecial(special_arg)
    /\ acc' = FreshAcc(acc)
    /\ k' = 1
    /\ pc' = "loop"
    /\ pending' = NoPending
    /\ words' = {}
    /\ emitted_by' = <<>>
    /\ Running
    /\ UNCHANGED <<token_score_map, sorted_tokens, t, start, positions,
                   token_positions, i, segments>>

\* lines 96-113, one pair
LoopStep ==
    /\ pc = "loop"
    /\ k <= Len(explanation)
    /\ acc' = AggregateStep(acc, explanation[k][1], explanation[k][2],
                            special_tokens)
    /\ k' = k + 1
    /\ pending' = PendingAfter(pending, explanation[k][1], explanation[k][2],
                               special_tokens)
    /\ words' = words \cup
          IF explanation[k][1] \in special_tokens
             \/ StartsWithMarker(explanation[k][1]) \/ acc.current_token = <<>>
          THEN {}
          ELSE Logged(pending, acc, acc', Strip(Lower(acc.current_token)))
    /\ UNCHANGED emitted_by
    /\ Running
    /\ UNCHANGED <<pc, special_tokens, token_score_map, sorted_tokens, t,
                   start, positions, token_positions, i, segments>>

\* the loop is exhausted; lines 116-118
LoopEnd ==
    /\ pc = "loop"
    /\ k > Len(explanation)
    /\ acc' = HandleLast(acc, explanation)
    /\ pc' = "check"
    /\ words' = words \cup Logged(pending, acc, acc', acc.current_token)
    /\ UNCHANGED <<pending, emitted_by>>
    /\ Running
    /\ UNCHANGED <<special_tokens, k, token_score_map, sorted_tokens, t,
                   start, positions, token_positions, i, segments>>

\* lines 120-121
ShortCircuit ==
    /\ pc = "check"
    /\ acc.scores_list = <<>> \/ acc.map = <<>>
    /\ Return(<<PlainSegment(text)>>)
    /\ emitted_by' = <<"short-circuit">>
    /\ UNCHANGED <<min_color, max_color, args, locals, pending, words>>

\* lines 124-129 raise TypeError, which leaves the call
NormalizeRaise ==
    /\ pc = "check"
    /\ ~(acc.scores_list = <<>> \/ acc.map = <<>>)
    /\ NormalizeRaises(acc.scores_list)
    /\ pc' = "raised"
    /\ calls' = calls + 1
    /\ result' = TypeError
    /\ history' = history \cup {<<args, TypeError>>}
    /\ UNCHANGED <<min_color, max_color, args, locals, log, par, shade>>

\* lines 124-146 up to the first search
NormalizeStep ==
    /\ pc = "check"
    /\ ~(acc.scores_list = <<>> \/ acc.map = <<>>)
    /\ ~NormalizeRaises(acc.scores_list)
    /\ token_score_map' = Normalize(acc.map, acc.scores_list)
    /\ segments' = <<>>
    /\ sorted_tokens' = SortedTokens(token_score_map')
    /\ token_positions' = <<>>
    /\ t' = 1
    /\ positions' = <<>>
    /\ start' = 0
    /\ pc' = "find"
    /\ Running /\ UNCHANGED log
    /\ UNCHANGED <<special_tokens, k, acc, i>>

\* line 148 finds nothing: lines 149-150, 156-157, then the next token or 160
FindMiss ==
    /\ pc = "find"
    /\ Find(Lower(text), sorted_tokens[t], start) = -1
    /\ token_positions' =
          IF positions # <<>>
          THEN Append(token_positions, <<sorted_tokens[t], positions>>)
          ELSE token_positions
    /\ IF t < Len(sorted_tokens)
       THEN /\ t' = t + 1
            /\ positions' = <<>>
            /\ start' = 0
            /\ UNCHANGED <<pc, i>>
       ELSE /\ pc' = "scan"
            /\ i' = 0
            /\ UNCHANGED <<t, positions, start>>
    /\ Running /\ UNCHANGED log
    /\ UNCHANGED <<special_tokens, k, acc, token_score_map, sorted_tokens,
                   segments>>

\* line 148 finds pos: lines 152-155
FindHit ==
    /\ pc = "find"
    /\ LET token == sorted_tokens[t]
           pos == Find(Lower(text), token, start)
       IN  /\ pos # -1
           /\ ~BoundaryRaises(text, pos)
           /\ positions' =
                 IF BoundaryOk(text, pos, Len(token))
                 THEN Append(positions, <<pos, pos + Len(token)>>)
                 ELSE positions
           /\ start' = pos + 1
    /\ Running /\ UNCHANGED log
    /\ UNCHANGED <<pc, special_tokens, k, acc, token_score_map, sorted_tokens,
                   t, token_positions, i, segments>>

\* line 152 indexes text past its end: IndexError leaves the call
FindRaise ==
    /\ pc = "find"
    /\ LET pos == Find(Lower(text), sorted_tokens[t], start)
       IN  pos # -1 /\ BoundaryRaises(text, pos)
    /\ pc' = "raised"
    /\ calls' = calls + 1
    /\ result' = IndexError
    /\ history' = history \cup {<<args, IndexError>>}
    /\ UNCHANGED <<min_color, max_color, args, locals, log, par, shade>>

\* lines 161-181: a span starts at i
ScanHighlight ==
    /\ pc = "scan"
    /\ i < Len(text)
    /\ LET best == BestAt(Spans(token_positions), token_score_map, i, NoBest(i))
       IN  /\ best.found
           /\ segments' = Append(segments,
                 <<TokenText(text, i, best),
                   interpolate_color(best.score, min_color, max_color),
                   best.score>>)
           /\ i' = best.end
    /\ emitted_by' = Append(emitted_by, "highlight")
    /\ Running /\ UNCHANGED <<pending, words>>
    /\ UNCHANGED <<pc, special_tokens, k, acc, token_score_map, sorted_tokens,
                   t, start, positions, token_positions>>

\* lines 161-175, 182-194: no span starts at i
ScanPlain ==
    /\ pc = "scan"
    /\ i < Len(text)
    /\ ~BestAt(Spans(token_positions), token_score_map, i, NoBest(i)).found
    /\ LET next_token_start == NextTokenStart(Spans(token_positions), text, i)
           plain_text == Slice(text, i, next_token_start)
       IN  /\ segments' = IF plain_text # <<>>
                          THEN Append(segments, PlainSegment(plain_text))
                          ELSE segments
           /\ emitted_by' = IF plain_text # <<>>
                            THEN Append(emitted_by, "plain")
                            ELSE emitted_by
           /\ i' = next_token_start
    /\ Running /\ UNCHANGED <<pending, words>>
    /\ UNCHANGED <<pc, special_tokens, k, acc, token_score_map, sorted_tokens,
                   t, start, positions, token_positions>>

\* the scan is over: lines 197-200
ScanEnd ==
    /\ pc = "scan"
    /\ i >= Len(text)
    /\ Return(Returned(segments, text))
    /\ emitted_by' = IF segments = <<>> THEN <<"fallback">> ELSE emitted_by
    /\ UNCHANGED <<min_color, max_color, args, locals, pending, words>>

Next ==
    \/ Enter
    \/ LoopStep
    \/ LoopEnd
    \/ ShortCircuit
    \/ NormalizeRaise
    \/ NormalizeStep
    \/ FindMiss
    \/ FindHit
    \/ FindRaise
    \/ ScanHighlight
    \/ ScanPlain
    \/ ScanEnd

Spec == Init /\ [][Next]_vars

(***************************************************************************)
(* Several calls, one after the other, on one TokenHighlighter.  The new   *)
(* frame's locals hold whatever the frame before left: the code has to     *)
(* assign each before it reads it.                                         *)
(***************************************************************************)
NewCall ==
    /\ pc \in {"done", "raised"}
    /\ calls < MaxCalls
    /\ \E in \in CallInputs :
          /\ text' = in.text
          /\ explanation' = in.explanation
          /\ special_arg' = in.special
    /\ pc' = "call"
    /\ result' = NoResult
    /\ UNCHANGED <<min_color, max_color, locals, calls, history, log, par, shade>>

InitCalls == InitWith(CallInputs) /\ Alone
NextCalls == Next \/ NewCall
SpecCalls == InitCalls /\ [][NextCalls]_vars

(***************************************************************************)
(* Two invocations on one TokenHighlighter that run in turns, a step of    *)
(* one, then a step of the other, in any order.  Each has its own frame:   *)
(* the arguments and the locals of create_highlighted_text; self.min_color *)
(* and self.max_color are the object's.  The code assigns no attribute and *)
(* no global, so a finer step than the actions above shows nothing more.   *)
(***************************************************************************)
\* current_token is an attribute of the object: the resumed invocation
\* finds what the other one left in it
ResumeSharedCur(saved, running) ==
    [saved EXCEPT !.acc = [@ EXCEPT !.current_token =
                                        running.acc.current_token]]
\* the resumed invocation finds its frame as it left it
Resume(saved, running) == saved

\* the running invocation is suspended and the other one resumed
Switch ==
    /\ ~Ended(other.pc)
    /\ LET f == Resume(other, Frame)
       IN  /\ text' = f.text
           /\ explanation' = f.explanation
           /\ special_arg' = f.special_arg
           /\ pc' = f.pc
           /\ special_tokens' = f.special_tokens
           /\ k' = f.k
           /\ acc' = f.acc
           /\ token_score_map' = f.token_score_map
           /\ sorted_tokens' = f.sorted_tokens
           /\ t' = f.t
           /\ start' = f.start
           /\ positions' = f.positions
           /\ token_positions' = f.token_positions
           /\ i' = f.i
           /\ segments' = f.segments
           /\ result' = f.result
           /\ pending' = f.pending
           /\ words' = f.words
           /\ emitted_by' = f.emitted_by
    /\ other' = Frame
    /\ interleaved' = (interleaved \/ (MidRun(pc) /\ MidRun(other.pc)))
    /\ UNCHANGED <<min_color, max_color, calls, history, shade>>

\* both invocations have ended: the arguments of one of them are passed
\* again, to a call that runs alone
CallAgain ==
    /\ Ended(pc) /\ Ended(other.pc)
    /\ calls < MaxCalls
    /\ \E h \in history :
          /\ text' = h[1][1]
          /\ explanation' = h[1][2]
          /\ special_arg' = h[1][3]
    /\ pc' = "call"
    /\ result' = NoResult
    /\ UNCHANGED <<min_color, max_color, locals, calls, history, log, par, shade>>

InitPar ==
    /\ InitWith(CallInputs)
    /\ \E in \in CallInputs : other = Called(in)
    /\ interleaved = FALSE
NextPar == Next \/ Switch \/ CallAgain
SpecPar == InitPar /\ [][NextPar]_vars

(***************************************************************************)
(* interpolate_color called on its own, with ratios inside and outside     *)
(* [0, 1], on highlighters of several colour pairs.                        *)
(***************************************************************************)
\* "1e90ff": lower-case digits and no '#'
BlueHex == <<"1", "e", "9", "0", "f", "f">>
ColorPairs ==
    ColorConfigs \cup {<<RedHex, WhiteHex>>, <<BlueHex, CoralHex>>}
\* the ratios n / d from -1 to 2
Ratios == UNION {{Frac(n, d) : n \in (-d)..(2 * d)} : d \in 1..MaxDen}
NoCall == [text |-> <<>>, explanation |-> <<>>, special |-> None]

\* lines 32-51
Interpolate ==
    /\ \E r \in Ratios :
          /\ ratio' = r
          /\ color' = interpolate_color(r, min_color, max_color)
    /\ UNCHANGED <<min_color, max_color, args, pc, locals, result, calls,
                   history, log, par>>

InitColor == InitOf(ColorPairs, {NoCall}) /\ Alone
NextColor == Interpolate
SpecColor == InitColor /\ [][NextColor]_vars

(***************************************************************************)
(* Properties.                                                            *)
(***************************************************************************)
RECURSIVE ConcatTexts(_)
ConcatTexts(segs) ==
    IF segs = <<>> THEN <<>> ELSE Head(segs)[1] \o ConcatTexts(Tail(segs))
\* the offset at which the first j segments end
Offset(segs, j) == Len(ConcatTexts(SubSeq(segs, 1, j)))
IsPlain(seg) == seg[2] = Black /\ seg[3] = Zero
AllSpecial(expl, special) ==
    \A j \in 1..Len(expl) : expl[j][1] \in special
Flat(scores) ==
    \A a, b \in 1..Len(scores) : scores[a] = scores[b]
HasReturned == pc = "done"

\* C1: the returned segments, concatenated in order, are the text, and
\* segment j is the text from the end of segment j-1 on: consecutive ranges
\* from offset 0 to len(text)
C1_LosslessPartition ==
    HasReturned =>
        LET segs == result.segments
        IN  /\ ConcatTexts(segs) = text
            /\ \A j \in 1..Len(segs) :
                  segs[j][1] = Slice(text, Offset(segs, j - 1), Offset(segs, j))
            /\ Offset(segs, 0) = 0
            /\ Offset(segs, Len(segs)) = Len(text)
\* a text with an upper-case word highlighted between plain segments
C1_Witness ==
    /\ HasReturned
    /\ Len(result.segments) >= 3
    /\ \E j \in 1..Len(result.segments) :
          /\ ~IsPlain(result.segments[j])
          /\ result.segments[j][1] # Lower(result.segments[j][1])

\* C2: a word of a starting token and one or more continuation tokens is
\* recorded with the starting token's score, whether the next token or the
\* end of the list finalizes it
C2_MergedWordHasStartScore ==
    \A w \in words :
        (w.started /\ w.pieces >= 1) => w.recorded = w.start_score

\* explanations that differ only in the scores of special-token pairs
SameButSpecialScores(e1, e2, special) ==
    /\ Len(e1) = Len(e2)
    /\ \A j \in 1..Len(e1) :
          /\ e1[j][1] = e2[j][1]
          /\ e1[j][1] \notin special => e1[j][2] = e2[j][2]
\* C3: two calls whose explanations differ only in the scores of
\* special-token pairs return the same segments for the same text
C3_SpecialScoresIgnored ==
    \A h1, h2 \in history :
        ( /\ h1[1][1] = h2[1][1]
          /\ h1[1][3] = h2[1][3]
          /\ SameButSpecialScores(h1[1][2], h2[1][2],
                                  EffectiveSpecial(h1[1][3])) )
        => h1[2] = h2[2]

\* C4 as stated: an empty text returns an empty segment list
C4_EmptyTextEmptyList ==
    (HasReturned /\ text = <<>>) => result.segments = <<>>
\* C4 as amended: an empty text returns one plain segment with empty text
C4_EmptyTextOnePlain ==
    (HasReturned /\ text = <<>>) => result.segments = <<PlainSegment(<<>>)>>
\* an empty text with words retained: the scan ran and appended nothing
C4_Witness ==
    /\ HasReturned
    /\ text = <<>>
    /\ token_score_map # <<>>
    /\ segments = <<>>

\* C5: with an empty explanation, or only special tokens in it, the call
\* returns one plain segment, the whole text, score 0, "#000000"
C5_NothingRetained ==
    (pc \in {"done", "raised"}
        /\ AllSpecial(explanation, EffectiveSpecial(special_arg)))
    => result = Returns(<< <<text, Black, Zero>> >>)
\* a text that holds the special token the explanation consists of
C5_Witness ==
    /\ HasReturned
    /\ explanation # <<>>
    /\ AllSpecial(explanation, EffectiveSpecial(special_arg))
    /\ text = explanation[1][1]

\* C6: every returned segment's score is in [0, 1]
C6_ScoreBounded ==
    HasReturned =>
        \A j \in 1..Len(result.segments) :
            /\ FLeq(Zero, result.segments[j][3])
            /\ FLeq(result.segments[j][3], One)
\* a negative score among the input, both extremes among the output
C6_Witness ==
    /\ HasReturned
    /\ \E j \in 1..Len(explanation) :
          IsNumber(explanation[j][2]) /\ FLess(explanation[j][2], Zero)
    /\ \E a, b \in 1..Len(result.segments) :
          /\ ~IsPlain(result.segments[a]) /\ result.segments[a][3] = Zero
          /\ result.segments[b][3] = One

\* C7: when all retained scores are equal, every value of the normalized
\* map is 0.5 and every segment that is not plain has score 0.5
C7_FlatScores ==
    (pc \in {"find", "scan", "done"}
        /\ acc.scores_list # <<>> /\ Flat(acc.scores_list))
    => /\ \A j \in 1..Len(token_score_map) : token_score_map[j][2] = Half
       /\ \A j \in 1..Len(segments) :
             IsPlain(segments[j]) \/ segments[j][3] = Half
       /\ \A j \in 1..Len(result.segments) :
             IsPlain(result.segments[j]) \/ result.segments[j][3] = Half
\* two words retained with one score, one of them highlighted
C7_Witness ==
    /\ HasReturned
    /\ Len(acc.scores_list) >= 2
    /\ Flat(acc.scores_list)
    /\ \E j \in 1..Len(result.segments) : result.segments[j][3] = Half

\* C8: no returned segment's text is a special token that occurs in the
\* explanation
C8_NoSpecialLiteralSegment ==
    HasReturned =>
        \A j \in 1..Len(explanation) :
            explanation[j][1] \in EffectiveSpecial(special_arg) =>
                \A n \in 1..Len(result.segments) :
                    result.segments[n][1] # explanation[j][1]

\* C9: calls with the same arguments end the same way whatever ran before,
\* and no step changes the colours or a running call's arguments
C9_Idempotent ==
    /\ [](\A h1, h2 \in history : h1[1] = h2[1] => h1[2] = h2[2])
    /\ [][ /\ min_color' = min_color
           /\ max_color' = max_color
           /\ pc \notin {"done", "raised"} => args' = args ]_vars
\* a call has returned segments, after a call with the same arguments and
\* then one with other arguments
C9_Witness ==
    /\ calls = 3
    /\ HasReturned
    /\ Cardinality(history) = 2
    /\ \E h \in history : h[1] # args /\ h[2] # result
    /\ Len(result.segments) >= 2

\* |x - milli / 1000| < 0.0005
Rounds(x, milli) ==
    LET e == 1000 * x.n - milli * x.d IN 2 * Abs(e) < x.d
IsScenarioA ==
    /\ text = NeedWaterNow
    /\ Len(explanation) = 3
    /\ explanation[1][2] = Frac(2, 10)
    /\ explanation[2][2] = Frac(9, 10)
    /\ explanation[3][2] = Frac(1, 10)
\* "Need", " ", "water", " ", "now", the words highlighted with the scores
\* given and the blanks plain
ScenarioAResult(need, water, now) ==
    LET segs == result.segments
        Word(j, score) ==
            /\ segs[j][3] = score
            /\ segs[j][2] = interpolate_color(score, min_color, max_color)
    IN  /\ Len(segs) = 5
        /\ [j \in 1..5 |-> segs[j][1]]
              = << SubSeq(NeedWaterNow, 1, 4), <<" ">>,
                   SubSeq(NeedWaterNow, 6, 10), <<" ">>,
                   SubSeq(NeedWaterNow, 12, 14) >>
        /\ Word(1, need) /\ Word(3, water) /\ Word(5, now)
        /\ IsPlain(segs[2]) /\ IsPlain(segs[4])
\* C10 as stated: in scenario A "need" scores 0.111
C10_ScenarioA_Stated ==
    (HasReturned /\ IsScenarioA) =>
        /\ Rounds(result.segments[1][3], 111)
        /\ ScenarioAResult(result.segments[1][3], One, Zero)
\* C10 as amended: in scenario A "need" scores 0.125 = (0.2-0.1)/(0.9-0.1)
C10_ScenarioA ==
    (HasReturned /\ IsScenarioA) => ScenarioAResult(Frac(1, 8), One, Zero)
C10_Witness ==
    HasReturned /\ IsScenarioA /\ Len(result.segments) = 5

\* word is text[p : p + len(word)] and no letter or digit is next to it
WholeWordAt(txt, word, p) ==
    /\ p + Len(word) <= Len(txt)
    /\ Slice(txt, p, p + Len(word)) = word
    /\ (p = 0 \/ ~IsAlnum(txt[p]))
    /\ (p + Len(word) = Len(txt) \/ ~IsAlnum(txt[p + Len(word) + 1]))
\* C11: a word of a starting token and continuation pieces, wherever it
\* occurs in the text as a whole word, is one highlighted segment that
\* covers the word
C11_MergedWordMatchedWhole ==
    HasReturned =>
        LET segs == result.segments
        IN  \A w \in words :
                (w.started /\ w.pieces >= 1) =>
                    \A p \in 0..Len(text) :
                        WholeWordAt(text, w.surface, p) =>
                            \E j \in 1..Len(segs) :
                                /\ Offset(segs, j - 1) = p
                                /\ segs[j][1] = w.surface
                                /\ ~IsPlain(segs[j])

\* C12: every segment that the short-circuit, the plain branch of the scan
\* or the fallback made has score 0 and colour "#000000"
C12_PlainIsBlackZero ==
    HasReturned =>
        /\ Len(emitted_by) = Len(result.segments)
        /\ \A j \in 1..Len(result.segments) :
              emitted_by[j] # "highlight" =>
                  /\ result.segments[j][2] = Black
                  /\ result.segments[j][3] = Zero
\* a plain segment after a highlighted one of score 0
C12_Witness ==
    /\ HasReturned
    /\ \E j \in 2..Len(result.segments) :
          /\ emitted_by[j] = "plain"
          /\ emitted_by[j - 1] = "highlight"
          /\ result.segments[j - 1][3] = Zero
          /\ result.segments[j - 1][2] # Black
\* the short-circuit's segment
C12_WitnessShortCircuit ==
    HasReturned /\ emitted_by = <<"short-circuit">> /\ text # <<>>
\* the fallback's segment
C12_WitnessFallback == HasReturned /\ emitted_by = <<"fallback">>

\* every step of a position search moves start forward, and every step of
\* the scan moves i forward, never past the end of the text
C13_Progress ==
    [][ /\ (pc = "find" /\ pc' = "find" /\ t' = t) => start' > start
        /\ (pc = "scan" /\ pc' = "scan") => (i' > i /\ i' <= Len(text)) ]_vars
\* C13: no call raises, and the searches and the scan progress strictly
C13_ReturnsWithoutRaising ==
    /\ [](pc # "raised")
    /\ C13_Progress

\* C14: no call returns a highlighted segment for a key that the map
\* recorded with a score that is no number: the call raises, or returns what
\* it returns without the pair
C14_NoMalformedHighlight ==
    HasReturned =>
        \A j \in 1..Len(result.segments) :
            emitted_by[j] = "highlight" =>
                \A m \in 1..Len(acc.map) :
                    acc.map[m][1] = Lower(result.segments[j][1])
                        => IsNumber(acc.map[m][2])

\* C15: of two invocations that run in turns on different arguments, each
\* ends as a call with its arguments ends when it runs alone; a step of one
\* leaves the frame of the other as it is, and a switch exchanges the two
C15_InterleavedAsAlone ==
    /\ [](\A h1, h2 \in history : h1[1] = h2[1] => h1[2] = h2[2])
    /\ [][ \/ other' = other
           \/ other' = Frame /\ Frame' = other ]_vars
\* two invocations on different arguments have run in turns and returned
\* different segments, and the call after them has returned too
C15_Witness ==
    /\ calls = 3
    /\ interleaved
    /\ HasReturned /\ other.pc = "done"
    /\ other.text # text
    /\ other.result # result
    /\ Cardinality(history) = 2
    /\ Len(result.segments) >= 2 /\ Len(other.result.segments) >= 2

C17_KeysLowerTrimmed ==
    \A j \in 1..Len(acc.map) : acc.map[j][1] = Strip(Lower(acc.map[j][1]))

\* the words of an explanation, lower-cased and trimmed: each token that is
\* neither special nor a continuation, with the pieces of the continuation
\* tokens that follow it; cur is the word being read
RECURSIVE WordsOf(_, _, _)
WordsOf(expl, special, cur) ==
    LET done == IF Strip(Lower(cur)) = <<>> THEN {} ELSE {Strip(Lower(cur))}
    IN  IF expl = <<>> THEN done
        ELSE LET token == Head(expl)[1]
             IN  IF token \in special
                 THEN WordsOf(Tail(expl), special, cur)
                 ELSE IF StartsWithMarker(token)
                 THEN WordsOf(Tail(expl), special,
                              cur \o Slice(token, 2, Len(token)))
                 ELSE done \cup WordsOf(Tail(expl), special, token)
\* C18: once the aggregation is over every key is, but for case and
\* surrounding whitespace, a whole word of the explanation, and the score
\* list has no more entries than there are words
C18_KeysAreWholeWords ==
    pc \notin {"call", "loop"} =>
        LET whole == WordsOf(explanation, special_tokens, <<>>)
        IN  /\ \A key \in Keys(acc.map) : Strip(Lower(key)) \in whole
            /\ Len(acc.scores_list) <= Cardinality(whole)

\* C19: no key of the map is empty and none is in the special-token set of
\* the call
C19_NoEmptyOrSpecialKey ==
    \A j \in 1..Len(acc.map) :
        acc.map[j][1] # <<>> /\ acc.map[j][1] \notin special_tokens

\* the orders in which n keys can come
Orders(n) ==
    {f \in [1..n -> 1..n] : \A a, b \in 1..n : f[a] = f[b] => a = b}
\* C20: the normalized map has the keys of the map, in its order; the
\* score list is the list of the map's values; when the scores are not all
\* equal each value v becomes (v - min) / (max - min) for the least and the
\* greatest score, so the least becomes 0 and the greatest 1; and the map
\* taken in any other order of its keys normalizes to the same values
C20_Normalization ==
    (pc \in {"find", "scan", "done"} /\ acc.map # <<>>) =>
        LET raw == acc.map
            scores == acc.scores_list
            n == Len(raw)
            vals == {raw[j][2] : j \in 1..n}
        IN  /\ KeyList(token_score_map) = KeyList(raw)
            /\ scores = [j \in 1..n |-> raw[j][2]]
            /\ ((\A v \in vals : IsNumber(v)) /\ ~Flat(scores)) =>
                  LET lo == CHOOSE x \in vals : \A y \in vals : FLeq(x, y)
                      hi == CHOOSE x \in vals : \A y \in vals : FLeq(y, x)
                  IN  /\ \A j \in 1..n :
                            /\ token_score_map[j][2]
                                 = FDiv(FSub(raw[j][2], lo), FSub(hi, lo))
                            /\ raw[j][2] = lo => token_score_map[j][2] = Zero
                            /\ raw[j][2] = hi => token_score_map[j][2] = One
                      /\ \A f \in Orders(n) :
                            LET shuffled == [j \in 1..n |-> raw[f[j]]]
                                list == [j \in 1..n |-> scores[f[j]]]
                            IN  Normalize(shuffled, list)
                                  = [j \in 1..n |-> token_score_map[f[j]]]
\* three keys with three scores, the first of them not the least: one
\* becomes 0, one 1 and one is in between
C20_Witness ==
    /\ HasReturned
    /\ Len(token_score_map) = 3
    /\ acc.scores_list[1] # MinOf(acc.scores_list)
    /\ \E a, b, c \in 1..3 :
          /\ token_score_map[a][2] = Zero
          /\ token_score_map[b][2] = One
          /\ FLess(Zero, token_score_map[c][2])
          /\ FLess(token_score_map[c][2], One)

\* the spans found so far: those of the keys done and of the key in hand
FoundSpans ==
    Spans(token_positions)
       \o (IF pc = "find"
           THEN [j \in 1..Len(positions) |->
                    <<sorted_tokens[t], positions[j][1], positions[j][2]>>]
           ELSE <<>>)
\* C21: every span recorded for a key is as long as the key, the lower-cased
\* text between its ends is the key, and the characters of that text before
\* and after it, if any, are not alphanumeric
C21_SpansAreWholeWords ==
    LET text_lower == Lower(text)
    IN  \A j \in 1..Len(FoundSpans) :
            LET key == FoundSpans[j][1]
                s == FoundSpans[j][2]
                e == FoundSpans[j][3]
            IN  /\ e - s = Len(key)
                /\ Slice(text_lower, s, e) = key
                /\ s = 0 \/ ~IsAlnum(text_lower[s])
                /\ e >= Len(text_lower) \/ ~IsAlnum(text_lower[e + 1])

\* the starts of the spans recorded for key, in the order recorded
StartsOf(key) ==
    LET mine == SelectSeq(Spans(token_positions), LAMBDA sp : sp[1] = key)
    IN  [j \in 1..Len(mine) |-> mine[j][2]]
\* C22: once the search is over, the spans of every key are all the offsets
\* at which the lower-cased text has the key as a whole word, in increasing
\* order
C22_AllWholeWordsFound ==
    pc \in {"scan", "done"} =>
        \A m \in 1..Len(token_score_map) :
            LET key == token_score_map[m][1]
                starts == StartsOf(key)
            IN  /\ \A p \in 0..Len(Lower(text)) :
                      WholeWordAt(Lower(text), key, p) =>
                          \E j \in 1..Len(starts) : starts[j] = p
                /\ \A a, b \in 1..Len(starts) : a < b => starts[a] < starts[b]

\* text[p:e] is the key in some letter case, and a whole word of the text
SpelledAt(txt, key, p, e) ==
    /\ Lower(Slice(txt, p, e)) = key
    /\ (p = 0 \/ ~IsAlnum(txt[p]))
    /\ (e = Len(txt) \/ ~IsAlnum(txt[e + 1]))
\* C23: once the search is over, the text between the ends of every
\* recorded span is the key in some letter case, and every whole word of
\* the text that is a key in some letter case has a span
C23_CaseInsensitiveOffsets ==
    pc \in {"scan", "done"} =>
        LET sp == Spans(token_positions)
        IN  /\ \A j \in 1..Len(sp) :
                  Lower(Slice(text, sp[j][2], sp[j][3])) = sp[j][1]
            /\ \A m \in 1..Len(token_score_map) :
                  \A p \in 0..Len(text) : \A e \in (p + 1)..Len(text) :
                      SpelledAt(text, token_score_map[m][1], p, e) =>
                          \E j \in 1..Len(sp) :
                              sp[j] = <<token_score_map[m][1], p, e>>

\* the spans that start at offset at, as indexes into Spans(token_positions)
StartingAt(at) ==
    {j \in 1..Len(Spans(token_positions)) : Spans(token_positions)[j][2] = at}
ScoreOfSpan(j) == Lookup(token_score_map, Spans(token_positions)[j][1])
\* C24: a step of the scan at an offset where spans start appends one
\* segment, that of a span starting there whose score none of the others
\* starting there exceeds, with that score and its colour, and moves i to
\* that span's end
C24_HighestScoreWins ==
    [][ (pc = "scan" /\ i < Len(text) /\ StartingAt(i) # {}) =>
          \E j \in StartingAt(i) :
              /\ \A m \in StartingAt(i) : FLeq(ScoreOfSpan(m), ScoreOfSpan(j))
              /\ segments' = Append(segments,
                    <<Slice(text, i, Spans(token_positions)[j][3]),
                      interpolate_color(ScoreOfSpan(j), min_color, max_color),
                      ScoreOfSpan(j)>>)
              /\ i' = Spans(token_positions)[j][3] ]_vars
\* of two spans that start at one offset the one with the higher score has
\* been emitted, and a span that starts inside it has been skipped
C24_Witness ==
    /\ HasReturned
    /\ \E n \in 1..Len(segments) :
          LET at == Offset(segments, n - 1)
          IN  /\ emitted_by[n] = "highlight"
              /\ \E a, b \in StartingAt(at) :
                    /\ FLess(ScoreOfSpan(b), ScoreOfSpan(a))
                    /\ segments[n][3] = ScoreOfSpan(a)
              /\ \E c \in 1..Len(Spans(token_positions)) :
                    /\ Spans(token_positions)[c][2] > at
                    /\ Spans(token_positions)[c][2] < Offset(segments, n)
\* a span of score 0 has been emitted
C24_WitnessZero ==
    /\ HasReturned
    /\ \E n \in 1..Len(segments) :
          emitted_by[n] = "highlight" /\ segments[n][3] = Zero

\* the spans starting at offset at whose score none starting there exceeds
TopAt(at) ==
    {j \in StartingAt(at) :
        \A m \in StartingAt(at) : FLeq(ScoreOfSpan(m), ScoreOfSpan(j))}
\* C25: the keys with spans are iterated longest first, and of the spans
\* that start at the scan offset with the highest score the scan takes the
\* first in that order, the one of the longest key
C25_TieLongestFirst ==
    /\ [](\A a, b \in 1..Len(token_positions) :
             a < b => Len(token_positions[a][1]) >= Len(token_positions[b][1]))
    /\ [][ (pc = "scan" /\ i < Len(text) /\ StartingAt(i) # {}) =>
             LET sp == Spans(token_positions)
                 first == CHOOSE j \in TopAt(i) : \A m \in TopAt(i) : j <= m
             IN  /\ i' = sp[first][3]
                 /\ \A m \in TopAt(i) \ {first} :
                       Len(sp[m][1]) < Len(sp[first][1]) ]_vars
\* two spans started at one offset with the same score, and the longer one
\* has been emitted
C25_Witness ==
    /\ HasReturned
    /\ \E n \in 1..Len(segments) :
          LET at == Offset(segments, n - 1)
          IN  /\ emitted_by[n] = "highlight"
              /\ Cardinality(TopAt(at)) >= 2
              /\ \A m \in TopAt(at) :
                    Len(Spans(token_positions)[m][1]) <= Len(segments[n][1])

\* the starts of the recorded spans
SpanStarts ==
    {Spans(token_positions)[j][2] : j \in 1..Len(Spans(token_positions))}
\* C26: a step of the scan at an offset where no span starts appends one
\* plain segment that is not empty, the text from i to the least span start
\* after i or to the end of the text, and moves i to its end; so in what is
\* returned no span starts inside a plain segment and no plain segment
\* follows a plain segment
C26_PlainIsMaximal ==
    /\ [][ (pc = "scan" /\ i < Len(text) /\ StartingAt(i) = {}) =>
             LET later == {x \in SpanStarts : x > i}
                 n == IF later = {} THEN Len(text)
                      ELSE CHOOSE x \in later : \A y \in later : x <= y
             IN  /\ Slice(text, i, n) # <<>>
                 /\ segments' = Append(segments,
                                       <<Slice(text, i, n), Black, Zero>>)
                 /\ i' = i + Len(Slice(text, i, n)) ]_vars
    /\ [](HasReturned =>
             \A n \in 1..Len(emitted_by) :
                 emitted_by[n] = "plain" =>
                     /\ n < Len(emitted_by) => emitted_by[n + 1] = "highlight"
                     /\ \A x \in SpanStarts :
                           ~(Offset(segments, n - 1) < x
                               /\ x < Offset(segments, n)))
\* a plain segment of several characters up to a highlighted one, and a
\* plain segment between two highlighted ones
C26_Witness ==
    /\ HasReturned
    /\ \E n, m \in 1..(Len(emitted_by) - 1) :
          /\ emitted_by[n] = "plain"
          /\ Len(segments[n][1]) >= 2
          /\ emitted_by[n + 1] = "highlight"
          /\ m > n + 1
          /\ emitted_by[m] = "plain"
          /\ emitted_by[m + 1] = "highlight"

\* C27: the scan ends with no segment only for the empty text, and the call
\* then returns one plain segment, the whole text, with score 0
C27_FallbackOnlyForEmptyText ==
    /\ (pc = "scan" /\ i >= Len(text) /\ segments = <<>>) => text = <<>>
    /\ (HasReturned /\ acc.map # <<>> /\ segments = <<>>) =>
          /\ text = <<>>
          /\ result = Returns(<< <<text, Black, Zero>> >>)
\* the scan of an empty text has ended with words in the map, and the call
\* has returned
C27_Witness ==
    /\ HasReturned
    /\ emitted_by = <<"fallback">>
    /\ Len(token_score_map) >= 2
    /\ i = 0

\* C28: the colour returned for a ratio is '#' and six digits; its channels
\* are in 0..255 and between those of the two colours; each is min +
\* (max - min) * r cut to an integer, r being the ratio brought into [0, 1];
\* so a ratio of 0 or less gives the channels of min_color and a ratio of 1
\* or more those of max_color
C28_InterpolateColor ==
    color # <<>> =>
        LET lo == hex_to_rgb(min_color)
            hi == hex_to_rgb(max_color)
            rgb == hex_to_rgb(color)
            r == IF FLess(ratio, Zero) THEN Zero
                 ELSE IF FLess(One, ratio) THEN One ELSE ratio
        IN  /\ Len(color) = 7 /\ color[1] = "#"
            /\ FLeq(ratio, Zero) => rgb = lo
            /\ FLeq(One, ratio) => rgb = hi
            /\ \A c \in 1..3 :
                  LET exact == lo[c] * r.d + (hi[c] - lo[c]) * r.n
                  IN  /\ rgb[c] \in 0..255
                      /\ (lo[c] <= rgb[c] /\ rgb[c] <= hi[c])
                           \/ (hi[c] <= rgb[c] /\ rgb[c] <= lo[c])
                      /\ rgb[c] * r.d <= exact
                      /\ exact < (rgb[c] + 1) * r.d
\* a ratio inside (0, 1) for which a rising and a falling channel are cut
C28_Witness ==
    /\ color # <<>>
    /\ FLess(Zero, ratio) /\ FLess(ratio, One)
    /\ LET lo == hex_to_rgb(min_color)
           hi == hex_to_rgb(max_color)
       IN  \E a, b \in 1..3 :
               /\ lo[a] < hi[a] /\ hi[b] < lo[b]
               /\ ((hi[a] - lo[a]) * ratio.n) % ratio.d # 0
               /\ ((lo[b] - hi[b]) * ratio.n) % ratio.d # 0
\* ratios below 0 and above 1
C28_WitnessBelow == color # <<>> /\ FLess(ratio, Zero) /\ min_color # max_color
C28_WitnessAbove == color # <<>> /\ FLess(One, ratio) /\ min_color # max_color

\* C29: every segment emitted for a selected span is non-empty, its
\* lower-cased text is a key of the normalized map, its score is that key's
\* normalized score and its colour is interpolate_color of that score; two
\* highlighted segments spelling the same word carry one score and colour
C29_HighlightedIsKey ==
    HasReturned =>
        LET segs == result.segments
            hl == {n \in 1..Len(segs) : emitted_by[n] = "highlight"}
        IN  /\ \A n \in hl :
                  /\ segs[n][1] # <<>>
                  /\ Lower(segs[n][1]) \in Keys(token_score_map)
                  /\ segs[n][3] = Lookup(token_score_map, Lower(segs[n][1]))
                  /\ segs[n][2] =
                        interpolate_color(segs[n][3], min_color, max_color)
            /\ \A a, b \in hl :
                  Lower(segs[a][1]) = Lower(segs[b][1]) =>
                      segs[a][2] = segs[b][2] /\ segs[a][3] = segs[b][3]
\* the same, for texts whose lower-casing keeps every offset
C29_HighlightedIsKeySameLength ==
    Len(Lower(text)) = Len(text) => C29_HighlightedIsKey
\* a word highlighted twice, in two spellings
C29_Witness ==
    /\ HasReturned
    /\ Len(Lower(text)) = Len(text)
    /\ LET segs == result.segments
           hl == {n \in 1..Len(segs) : emitted_by[n] = "highlight"}
       IN  \E a, b \in hl :
               /\ segs[a][1] # segs[b][1]
               /\ Lower(segs[a][1]) = Lower(segs[b][1])

\* C30 as stated: every segment emitted for a matched word has a score above
\* 0, so that only plain segments have score 0
C30_ZeroOnlyIfPlain ==
    HasReturned =>
        \A j \in 1..Len(result.segments) :
            emitted_by[j] = "highlight" => FLess(Zero, result.segments[j][3])
\* C30: every plain segment has score 0; a key's normalized score is 0
\* exactly when the retained scores differ and its recorded score is their
\* minimum; a highlighted segment carries the normalized score, 0 or more,
\* of a key with a span at its offset, so a score of 0 is also that of the
\* segments highlighted for a key with the minimum score
C30_ZeroIsPlainOrMinimum ==
    HasReturned =>
        /\ \A m \in 1..Len(token_score_map) :
              token_score_map[m][2] = Zero
                 <=> /\ ~Flat(acc.scores_list)
                     /\ Lookup(acc.map, token_score_map[m][1])
                           = MinOf(acc.scores_list)
        /\ \A j \in 1..Len(result.segments) :
              /\ emitted_by[j] # "highlight" => result.segments[j][3] = Zero
              /\ emitted_by[j] = "highlight" =>
                    /\ FLeq(Zero, result.segments[j][3])
                    /\ \E m \in StartingAt(Offset(result.segments, j - 1)) :
                          result.segments[j][3] = ScoreOfSpan(m)
\* a highlighted segment of score 0 between a plain segment, also of score 0,
\* and a highlighted segment of a score above 0
C30_Witness ==
    /\ HasReturned
    /\ \E a, b, c \in 1..Len(result.segments) :
          /\ emitted_by[a] = "highlight" /\ result.segments[a][3] = Zero
          /\ emitted_by[b] = "plain"
          /\ emitted_by[c] = "highlight"
          /\ FLess(Zero, result.segments[c][3])


=============================================================================
